---------------------------- MODULE Spec2Model ----------------------------
(***************************************************************************)
(* Adaptive lesson generation: skill selection, scaffolding assessment,    *)
(* time-aware planning and block generation of the lesson service.         *)
(*                                                                         *)
(* Difficulty is a real number in [0,1] in the program; here it is an      *)
(* integer number of hundredths (30 stands for 0.3), so that every cutoff  *)
(* of the code (0.3, 0.5, 0.6, 0.7) is an exact grid point.  An absent     *)
(* available_time_minutes (None) is NoTime; the code tests it by truth     *)
(* value, and the request validator admits no value below 10.              *)
(***************************************************************************)
EXTENDS Integers, Sequences, FiniteSets, TLC

\* The absent value of an optional record (Python None).
None == [none |-> TRUE]
NoTime == 0

(***************************************************************************)
(* Bounds of the model.                                                    *)
(***************************************************************************)
MaxSteps == 3

(***************************************************************************)
(* Catalog data.  The JSON catalogs are data files outside the code; the   *)
(* skills below are the ones the repository's scripts and the assessor's   *)
(* tables name.  A catalog is any subset of them.                          *)
(***************************************************************************)
color_progression == <<"Green", "Blue", "Yellow", "Orange", "Red">>

SkillColor == {"Green", "Blue", "Yellow", "Orange", "Red"}

BlockType == {"MapIt", "SayIt", "BuildIt", "Prompt"}

RequestBlockType == {"MapIt", "SayIt", "BuildIt"}

Skill(n, c, b) == [name |-> n, color |-> c, block_type |-> b]

SkillUniverse ==
    { Skill("Retrieve", "Green", "MapIt"),
      Skill("Compare", "Blue", "MapIt"),
      Skill("Categorise", "Blue", "MapIt"),
      Skill("Connect", "Blue", "BuildIt"),
      Skill("Explain", "Yellow", "SayIt"),
      Skill("Target Vocabulary", "Orange", "SayIt"),
      Skill("Hypothesise", "Red", "BuildIt") }

\* A catalog entry whose block_type is none of the known activity types
\* (SkillSpec.block_type is an unconstrained string).
UnknownTypeSkill == Skill("Elaborate", "Orange", "WriteIt")

Difficulties == 0..100

(***************************************************************************)
(* ScaffoldingAssessor tables.                                             *)
(***************************************************************************)
simple_prompt_candidates ==
    [c \in SkillColor |->
        CASE c = "Green"  -> {"Identify", "Retrieve", "Recognize", "Extract"}
          [] c = "Yellow" -> {"Explain", "Exemplify"}
          [] c = "Blue"   -> {"Compare"}
          [] OTHER        -> {}]

scaffold_required ==
    [c \in SkillColor |->
        CASE c = "Red"    -> {"Hypothesise", "Judge", "Combine", "Imagine"}
          [] c = "Orange" -> {"Target Vocabulary", "Verbs", "Adjectives"}
          [] c = "Blue"   -> {"Categorise", "Sequence", "Rank"}
          [] OTHER        -> {}]

PromptMinutes == 5
MapItMinutes == 15
SayItMinutes == 10
BuildItMinutes == 20
DefaultMinutes == 12

time_estimates(block_type) ==
    CASE block_type = "MapIt"   -> MapItMinutes
      [] block_type = "SayIt"   -> SayItMinutes
      [] block_type = "BuildIt" -> BuildItMinutes
      [] block_type = "Prompt"  -> PromptMinutes
      [] OTHER                  -> DefaultMinutes

\* Faulty variant of _get_colors_for_difficulty: the two middle branches are
\* swapped, so the permitted window moves down between 0.5 and 0.7.
colors_BranchesSwapped(difficulty) ==
    IF difficulty <= 30 THEN {"Green", "Blue"}
    ELSE IF difficulty <= 50 THEN {"Blue", "Yellow", "Orange", "Red"}
    ELSE IF difficulty <= 70 THEN {"Green", "Blue", "Yellow"}
    ELSE {"Yellow", "Orange", "Red"}

(***************************************************************************)
(* SkillSelector._get_colors_for_difficulty                                *)
(***************************************************************************)
_get_colors_for_difficulty(difficulty) ==
    IF difficulty <= 30 THEN {"Green", "Blue"}
    ELSE IF difficulty <= 50 THEN {"Green", "Blue", "Yellow"}
    ELSE IF difficulty <= 70 THEN {"Blue", "Yellow", "Orange", "Red"}
    ELSE {"Yellow", "Orange", "Red"}

\* Index of a color in the fixed category order.
ColorIndex(c) == CHOOSE i \in 1..Len(color_progression) : color_progression[i] = c

\* Faulty variant of estimate_activity_time: a prompt is estimated like a
\* discussion activity.
estimate_PromptCostsMore(use_scaffold, block_type, difficulty) ==
    IF ~use_scaffold THEN SayItMinutes
    ELSE IF difficulty <= 30 THEN (time_estimates(block_type) * 8) \div 10
    ELSE IF difficulty >= 70 THEN (time_estimates(block_type) * 12) \div 10
    ELSE time_estimates(block_type)

(***************************************************************************)
(* ScaffoldingAssessor.estimate_activity_time.  int(base * 0.8) and        *)
(* int(base * 1.2) truncate; on the bases 10, 12, 15, 20 the floating      *)
(* point products truncate to the same integers as the exact quotients.    *)
(***************************************************************************)
estimate_activity_time(use_scaffold, block_type, difficulty) ==
    IF ~use_scaffold THEN time_estimates("Prompt")
    ELSE IF difficulty <= 30 THEN (time_estimates(block_type) * 8) \div 10
    ELSE IF difficulty >= 70 THEN (time_estimates(block_type) * 12) \div 10
    ELSE time_estimates(block_type)


(***************************************************************************)
(* Skill selection.  A preferred_blocks list is a sequence of block types; *)
(* the code tests it by truth value, so None and the empty list are both   *)
(* <<>>.  The static catalog is [colors |-> the color keys of the file,    *)
(* skills |-> its skills]; the enhanced catalog is the set of its skills.  *)
(* Random choices make a selection a set of possible results.              *)
(***************************************************************************)
Range(seq) == {seq[i] : i \in DOMAIN seq}

Names(seq) == {seq[i].name : i \in DOMAIN seq}

Min2(a, b) == IF a <= b THEN a ELSE b

\* A returned skill list, or the SkillSelectionError raised to the caller.
Selected(via, sel) == [ok |-> TRUE, via |-> via, skills |-> sel]

SkillSelectionError == [ok |-> FALSE, via |-> "static", skills |-> <<>>]

\* RAGEnhancedSkillSelector._get_subject_preferences, in tenths; a skill
\* the table does not list gets 0.5.
_get_subject_preferences(subject, name) ==
    CASE subject = "Science" /\ name \in {"Categorise", "Hypothesise"} -> 9
      [] subject = "Science" /\ name \in {"Compare", "Explain"} -> 8
      [] subject = "Science" /\ name = "Sequence" -> 7
      [] subject = "Mathematics" /\ name = "Sequence" -> 9
      [] subject = "Mathematics" /\ name \in {"Compare", "Rank"} -> 8
      [] subject = "Mathematics" /\ name = "Categorise" -> 7
      [] subject = "English" /\ name \in {"Explain", "Target Vocabulary"} -> 9
      [] subject = "English" /\ name \in {"Elaborate", "Adjectives"} -> 8
      [] subject = "History" /\ name = "Sequence" -> 9
      [] subject = "History" /\ name \in {"Explain", "New Perspective"} -> 8
      [] subject = "History" /\ name = "Compare" -> 7
      [] subject = "Geography" /\ name = "Categorise" -> 9
      [] subject = "Geography" /\ name = "Compare" -> 8
      [] subject = "Geography" /\ name \in {"Connect", "Explain"} -> 7
      [] OTHER -> 5

\* Position-based boost of _select_skill_for_position, in tenths.
PositionBoost(position, color) ==
    IF position = 0
    THEN (IF color = "Green" THEN 20 ELSE IF color = "Blue" THEN 15 ELSE 10)
    ELSE IF position >= 2
    THEN (IF color = "Red" THEN 20 ELSE IF color = "Yellow" THEN 15 ELSE 10)
    ELSE 10

\* Score of a skill before its random factor, in hundredths.
BaseScore(skill, subject, position) ==
    _get_subject_preferences(subject, skill.name) * PositionBoost(position, skill.color)

(***************************************************************************)
(* RAGEnhancedSkillSelector._select_skill_for_position: the skills the     *)
(* call can return.  Each score is multiplied by a random factor in        *)
(* [0.8, 1.2) and the highest wins, so a skill can win iff 1.2 times its   *)
(* base score exceeds 0.8 times every other base score.                    *)
(***************************************************************************)
_select_skill_for_position(matching_skills, subject, position, already_selected) ==
    LET unused == {s \in matching_skills : s.name \notin already_selected}
        available_skills == IF unused = {} THEN matching_skills ELSE unused
    IN  {s \in available_skills :
            \A t \in available_skills \ {s} :
                3 * BaseScore(s, subject, position) > 2 * BaseScore(t, subject, position)}

\* The for loop of RAGEnhancedSkillSelector.select_skills_for_lesson over
\* scaffold_sequence, from its i-th element (1-based) on.
RECURSIVE RagLoop(_, _, _, _, _)
RagLoop(all_skills, scaffold_sequence, subject, i, selected_skills) ==
    IF i > Len(scaffold_sequence) THEN {selected_skills}
    ELSE LET matching_skills ==
                 {s \in all_skills : s.block_type = scaffold_sequence[i]}
         IN  IF matching_skills = {}
             THEN RagLoop(all_skills, scaffold_sequence, subject, i + 1, selected_skills)
             ELSE UNION { RagLoop(all_skills, scaffold_sequence, subject, i + 1,
                                  Append(selected_skills, s)) :
                          s \in _select_skill_for_position(matching_skills, subject,
                                     i - 1, Names(selected_skills)) }

\* The while loop that tops the selection up to step_count.
RECURSIVE RagFill(_, _, _)
RagFill(all_skills, step_count, selected_skills) ==
    IF Len(selected_skills) >= step_count THEN {selected_skills}
    ELSE LET unused == {s \in all_skills : s.name \notin Names(selected_skills)}
             available_skills == IF unused = {} THEN all_skills ELSE unused
         IN  UNION { RagFill(all_skills, step_count, Append(selected_skills, s)) :
                     s \in available_skills }

(***************************************************************************)
(* SkillSelector (static selector).                                        *)
(***************************************************************************)
OrderedColors(available_colors) ==
    SelectSeq(color_progression, LAMBDA c : c \in available_colors)

\* The target colors of step i (0-based) in _select_progressive_skills.
TargetColors(i, step_count, ordered_colors) ==
    IF i = 0 /\ "Green" \in Range(ordered_colors) THEN {"Green"}
    ELSE IF i = step_count - 1 /\ "Red" \in Range(ordered_colors) THEN {"Red"}
    ELSE IF i < Len(ordered_colors)
         THEN {ordered_colors[j] : j \in (i + 1)..Min2(i + 2, Len(ordered_colors))}
         ELSE {ordered_colors[j] : j \in (Len(ordered_colors) - 1)..Len(ordered_colors)}

\* SkillMetadataManager.get_skills_by_color raises for a color that is not
\* a key of the catalog file.
LookupRaises(static, colors) == \E c \in colors : c \notin static.colors

_select_skill_from_colors(static, target_colors, preferred_blocks, step_index, used_skills) ==
    {s \in static.skills :
        /\ s.color \in target_colors
        /\ (preferred_blocks # <<>> /\ step_index < Len(preferred_blocks))
              => s.block_type = preferred_blocks[step_index + 1]
        /\ s.name \notin used_skills}

_select_fallback_skill(static, available_colors, used_skills) ==
    {s \in static.skills : s.color \in available_colors /\ s.name \notin used_skills}

\* The loop of _select_progressive_skills from step i (0-based) on: a step
\* that finds neither a candidate nor a fallback appends nothing.
RECURSIVE _select_progressive_skills(_, _, _, _, _, _)
_select_progressive_skills(static, available_colors, step_count, preferred_blocks, i, selected_skills) ==
    IF i >= step_count THEN {Selected("static", selected_skills)}
    ELSE LET target_colors == TargetColors(i, step_count, OrderedColors(available_colors))
             candidates == _select_skill_from_colors(static, target_colors,
                               preferred_blocks, i, Names(selected_skills))
             fallback == _select_fallback_skill(static, available_colors,
                               Names(selected_skills))
             chosen == IF candidates # {} THEN candidates ELSE fallback
         IN  IF LookupRaises(static, target_colors) THEN {SkillSelectionError}
             ELSE IF candidates = {} /\ LookupRaises(static, available_colors)
             THEN {SkillSelectionError}
             ELSE IF chosen = {}
             THEN _select_progressive_skills(static, available_colors, step_count,
                      preferred_blocks, i + 1, selected_skills)
             ELSE UNION { _select_progressive_skills(static, available_colors, step_count,
                              preferred_blocks, i + 1, Append(selected_skills, s)) :
                          s \in chosen }

\* SkillSelector.select_skills_for_lesson: any exception becomes a
\* SkillSelectionError.
static_select_skills_for_lesson(static, difficulty, step_count, preferred_blocks) ==
    _select_progressive_skills(static, _get_colors_for_difficulty(difficulty),
                               step_count, preferred_blocks, 0, <<>>)

\* RAGEnhancedSkillSelector._fallback_skill_selection
_fallback_skill_selection(static, difficulty, step_count, preferred_blocks) ==
    static_select_skills_for_lesson(static, difficulty, step_count, preferred_blocks)

(***************************************************************************)
(* RAGEnhancedSkillSelector.select_skills_for_lesson: the results a call   *)
(* can produce.  With no preferred_blocks, or fewer than step_count, the   *)
(* code calls self._generate_varied_scaffold_sequence, which this class    *)
(* does not define; the AttributeError is caught by the except clause,     *)
(* which answers with the static fallback.                                 *)
(***************************************************************************)
select_skills_for_lesson(enhanced, static, difficulty, step_count, subject, preferred_blocks) ==
    IF enhanced = {}
    THEN _fallback_skill_selection(static, difficulty, step_count, preferred_blocks)
    ELSE IF preferred_blocks # <<>> /\ Len(preferred_blocks) >= step_count
    THEN LET scaffold_sequence == SubSeq(preferred_blocks, 1, step_count)
             looped == RagLoop(enhanced, scaffold_sequence, subject, 1, <<>>)
             filled == UNION {RagFill(enhanced, step_count, sel) : sel \in looped}
         IN  {Selected("rag", SubSeq(sel, 1, step_count)) : sel \in filled}
    ELSE _fallback_skill_selection(static, difficulty, step_count, preferred_blocks)

(***************************************************************************)
(* TimeAwareLessonService: the scaffold sequence handed to the selector.   *)
(* Random draws make the varied sequence a set of possible sequences.      *)
(***************************************************************************)
\* _generate_moderate_time_sequence
RECURSIVE Alternate(_, _)
Alternate(sequence, step_count) ==
    IF Len(sequence) >= step_count THEN sequence
    ELSE Alternate(Append(sequence,
                       IF sequence[Len(sequence)] = "MapIt" THEN "SayIt" ELSE "MapIt"),
                   step_count)

_generate_moderate_time_sequence(step_count, difficulty) ==
    LET first == IF step_count >= 1 THEN <<"MapIt">> ELSE <<>>
        second == IF step_count >= 2 THEN Append(first, "SayIt") ELSE first
        third == IF step_count >= 3
                 THEN Append(second, IF difficulty > 60 THEN "BuildIt" ELSE "MapIt")
                 ELSE second
    IN  Alternate(third, step_count)

\* Faulty variant of NextTypes: with prefer_variety the weighted selection
\* is made whatever the last two types are.
types_IgnoreRepeat(sequence, base_types, difficulty, prefer_variety) ==
    LET last_type == sequence[Len(sequence)]
    IN  IF prefer_variety THEN RequestBlockType
        ELSE IF last_type = "MapIt" THEN {"SayIt"}
        ELSE IF last_type = "SayIt"
             THEN {IF difficulty > 50 THEN "BuildIt" ELSE "MapIt"}
             ELSE {"MapIt"}

\* Lines 232-253: the types one iteration of the fill loop can append.
\* Every weight of _get_scaffold_weights is positive.
NextTypes(sequence, base_types, difficulty, prefer_variety) ==
    LET n == Len(sequence)
        last_type == sequence[n]
    IN  IF prefer_variety
        THEN IF n >= 2 /\ sequence[n] = sequence[n - 1]
             THEN Range(base_types) \ {last_type}
             ELSE RequestBlockType
        ELSE IF last_type = "MapIt" THEN {"SayIt"}
        ELSE IF last_type = "SayIt"
             THEN {IF difficulty > 50 THEN "BuildIt" ELSE "MapIt"}
             ELSE {"MapIt"}

\* _generate_varied_scaffold_sequence: the sequences the fill loop can
\* produce from the sequence built so far.
RECURSIVE VariedFill(_, _, _, _, _)
VariedFill(sequence, base_types, step_count, difficulty, prefer_variety) ==
    IF Len(sequence) >= step_count THEN {sequence}
    ELSE UNION { VariedFill(Append(sequence, t), base_types, step_count,
                            difficulty, prefer_variety)
                 : t \in NextTypes(sequence, base_types, difficulty, prefer_variety) }

_generate_varied_scaffold_sequence(step_count, difficulty, prefer_variety) ==
    LET base_types == IF difficulty > 50 /\ step_count >= 3
                      THEN <<"MapIt", "SayIt", "BuildIt">>
                      ELSE <<"MapIt", "SayIt">>
        sequence == SubSeq(base_types, 1, Min2(Len(base_types), step_count))
    IN  VariedFill(sequence, base_types, step_count, difficulty, prefer_variety)

\* LessonService._generate_varied_scaffold_sequence (lesson_service.py), the
\* fill loop of lines 165-182.
RECURSIVE LessonServiceFill(_, _)
LessonServiceFill(scaffolds, step_count) ==
    IF Len(scaffolds) >= step_count THEN {scaffolds}
    ELSE LET n == Len(scaffolds)
             options == IF n >= 2 /\ scaffolds[n] = scaffolds[n - 1]
                        THEN RequestBlockType \ {scaffolds[n]}
                        ELSE RequestBlockType
         IN  UNION { LessonServiceFill(Append(scaffolds, t), step_count) : t \in options }

LessonService_generate_varied_scaffold_sequence(step_count, difficulty) ==
    LET first == IF step_count >= 1 THEN <<"MapIt">> ELSE <<>>
        second == IF step_count >= 2 THEN Append(first, "SayIt") ELSE first
        third == IF step_count >= 3 /\ difficulty > 50 THEN Append(second, "BuildIt")
                 ELSE IF step_count >= 3
                 THEN Append(second, IF second[Len(second)] = "SayIt" THEN "MapIt"
                                     ELSE "SayIt")
                 ELSE second
    IN  LessonServiceFill(third, step_count)

\* _generate_time_aware_sequence; avg < k is compared as available < k * step_count.
_generate_time_aware_sequence(step_count, difficulty, available_time, time_flexibility, prefer_variety) ==
    IF available_time # NoTime
       /\ (available_time < 8 * step_count \/ time_flexibility = "strict")
    THEN {[i \in 1..step_count |-> "SayIt"]}
    ELSE IF available_time # NoTime /\ available_time < 12 * step_count
    THEN {[i \in 1..step_count |-> IF i = 1 THEN "MapIt" ELSE "SayIt"]}
    ELSE IF available_time # NoTime /\ available_time < 18 * step_count
    THEN {_generate_moderate_time_sequence(step_count, difficulty)}
    ELSE _generate_varied_scaffold_sequence(step_count, difficulty, prefer_variety)

\* _plan_scaffold_sequence: the teacher's preferences are taken as they are.
_plan_scaffold_sequence(request) ==
    IF request.preferred_blocks # <<>> THEN {request.preferred_blocks}
    ELSE _generate_time_aware_sequence(request.step_count, request.difficulty,
             request.available_time_minutes, request.time_flexibility,
             request.prefer_variety)

(***************************************************************************)
(* ScaffoldingAssessor.should_use_full_scaffold.  draw40 and draw30 are    *)
(* the outcomes of random() < 0.4 and random() < 0.3.  The time tests      *)
(* (available - 10 * position) / remaining < k are cross-multiplied; with  *)
(* no remaining step the code takes 10 minutes per step.                   *)
(***************************************************************************)
\* Faulty variant of RequiresScaffold: only the Red skills of the table
\* are taken as requiring a scaffold.
requires_OnlyRed(skill) ==
    skill.color = "Red" /\ skill.name \in scaffold_required[skill.color]

\* Lines 76-78: the skill is in the scaffold_required table.
RequiresScaffold(skill) ==
    skill.name \in scaffold_required[skill.color]

\* time_per_remaining_step < k, lines 62-63.
TimePerRemainingStepBelow(k, available_time_minutes, sequence_position, total_steps) ==
    LET remaining_steps == total_steps - sequence_position
    IN  IF remaining_steps > 0
        THEN available_time_minutes - sequence_position * 10 < k * remaining_steps
        ELSE 10 < k

\* Faulty variant of TimePressure: the 15-minute test for BuildIt is not
\* made for the skills that require a scaffold.
pressure_SparesRequiredSkills(skill, available_time_minutes, sequence_position, total_steps) ==
    /\ available_time_minutes # NoTime
    /\ \/ TimePerRemainingStepBelow(8, available_time_minutes, sequence_position, total_steps)
       \/ /\ skill.block_type = "BuildIt"
          /\ ~RequiresScaffold(skill)
          /\ TimePerRemainingStepBelow(15, available_time_minutes, sequence_position,
                                       total_steps)

\* The time pressure assessment of lines 60-73 answers "prompt".
TimePressure(skill, available_time_minutes, sequence_position, total_steps) ==
    /\ available_time_minutes # NoTime
    /\ \/ TimePerRemainingStepBelow(8, available_time_minutes, sequence_position, total_steps)
       \/ /\ skill.block_type = "BuildIt"
          /\ TimePerRemainingStepBelow(15, available_time_minutes, sequence_position,
                                       total_steps)

\* Faulty variant of should_use_full_scaffold: the 40% variety rule is not
\* held back until the lesson has a full scaffold.
assess_VarietyFromTheStart(skill, subject, available_time_minutes, sequence_position, total_steps, previous_scaffolds_count, draw40, draw30) ==
    LET prompt_candidate == skill.name \in simple_prompt_candidates[skill.color]
    IN  IF TimePressure(skill, available_time_minutes, sequence_position, total_steps)
        THEN FALSE
        ELSE IF skill.name \in scaffold_required[skill.color] THEN TRUE
        ELSE IF prompt_candidate /\ draw40 THEN FALSE
        ELSE IF sequence_position = 0 /\ skill.color \in {"Yellow", "Orange", "Red"}
        THEN TRUE
        ELSE IF sequence_position = total_steps - 1 /\ skill.color = "Red" THEN TRUE
        ELSE IF previous_scaffolds_count >= 2 /\ skill.color \in {"Green", "Blue"}
                /\ draw30
        THEN FALSE
        ELSE TRUE

\* Lines 58-129; the subject rules and the default of lines 108-125 all
\* answer "full scaffold".
should_use_full_scaffold(skill, subject, available_time_minutes, sequence_position, total_steps, previous_scaffolds_count, draw40, draw30) ==
    LET prompt_candidate == skill.name \in simple_prompt_candidates[skill.color]
    IN  IF TimePressure(skill, available_time_minutes, sequence_position, total_steps)
        THEN FALSE
        ELSE IF RequiresScaffold(skill) THEN TRUE
        ELSE IF prompt_candidate /\ previous_scaffolds_count = 0 THEN TRUE
        ELSE IF prompt_candidate /\ draw40 THEN FALSE
        ELSE IF sequence_position = 0 /\ skill.color \in {"Yellow", "Orange", "Red"}
        THEN TRUE
        ELSE IF sequence_position = total_steps - 1 /\ skill.color = "Red" THEN TRUE
        ELSE IF previous_scaffolds_count >= 2 /\ skill.color \in {"Green", "Blue"}
                /\ draw30
        THEN FALSE
        ELSE TRUE

\* ScaffoldingAssessor._get_interaction_type
_get_interaction_type(skill) ==
    CASE skill.color = "Green" -> "think_pair_share"
      [] skill.color = "Blue" -> "whole_class_discussion"
      [] skill.color = "Yellow" -> "small_group_discussion"
      [] skill.color = "Orange" -> "individual_then_share"
      [] skill.color = "Red" -> "collaborative_thinking"
      [] OTHER -> "whole_class_discussion"

PromptTemplates == 1..3

PromptDurationMinutes == 5

\* ScaffoldingAssessor.generate_simple_prompt; template is the index that
\* random.choice picks among the three prompts of the skill.
generate_simple_prompt(skill, template) ==
    [type |-> "simple_prompt",
     main_prompt |-> <<skill.name, template>>,
     skill |-> skill.name,
     duration_minutes |-> PromptDurationMinutes,
     interaction_type |-> _get_interaction_type(skill)]

(***************************************************************************)
(* EnhancedBlockGenerator._plan_scaffolding_strategy, one position.        *)
(***************************************************************************)
RECURSIVE SumEstimatedTime(_)
SumEstimatedTime(decisions) ==
    IF decisions = <<>> THEN 0
    ELSE decisions[1].estimated_time + SumEstimatedTime(Tail(decisions))

\* Faulty variant of StrictApplies: the adjustment is made for moderate
\* flexibility instead of strict.
strict_AppliesToModerate(time_flexibility, available_time_minutes) ==
    time_flexibility = "moderate" /\ available_time_minutes # NoTime

\* Line 141: the time flexibility adjustment is made for strict requests
\* with a time budget.
StrictApplies(time_flexibility, available_time_minutes) ==
    time_flexibility = "strict" /\ available_time_minutes # NoTime

\* Faulty variant of StrictOverride: the strict-time rule never fires.
override_Never(time_flexibility, available_time_minutes, use_scaffold, estimated_time, remaining_skills, remaining_time) ==
    FALSE

\* The strict-time test of lines 141-147: estimated_time > remaining_time /
\* remaining_skills, cross-multiplied (remaining_skills is at least 1).
StrictOverride(time_flexibility, available_time_minutes, use_scaffold, estimated_time, remaining_skills, remaining_time) ==
    /\ StrictApplies(time_flexibility, available_time_minutes)
    /\ use_scaffold
    /\ estimated_time * remaining_skills > remaining_time

\* Faulty variant of OverridePromptData: a decision switched by the
\* strict-time rule keeps the prompt data of the first assessment.
prompt_KeptAfterOverride(override, prompt_data, skill, template) ==
    prompt_data

\* Line 150: a decision switched by the strict-time rule gets its prompt
\* data generated.
OverridePromptData(override, prompt_data, skill, template) ==
    IF override THEN generate_simple_prompt(skill, template) ELSE prompt_data

\* Faulty variant of PlanDecision: the strict-time rule also switches a
\* full scaffold whose estimate equals the fair share.
decision_OverrideAtFairShare(skills, i, scaffold_decisions, previous_scaffolds_count, subject, difficulty, available_time_minutes, time_flexibility, draw40, draw30, template) ==
    LET skill == skills[i + 1]
        assessed == should_use_full_scaffold(skill, subject, available_time_minutes,
                        i, Len(skills), previous_scaffolds_count, draw40, draw30)
        first_prompt == IF ~assessed THEN generate_simple_prompt(skill, template)
                        ELSE None
        first_estimate == estimate_activity_time(assessed, skill.block_type, difficulty)
        override == \/ StrictOverride(time_flexibility, available_time_minutes,
                           assessed, first_estimate, Len(skills) - i,
                           available_time_minutes - SumEstimatedTime(scaffold_decisions))
                    \/ /\ StrictApplies(time_flexibility, available_time_minutes)
                       /\ assessed
                       /\ first_estimate * (Len(skills) - i)
                              = available_time_minutes
                                - SumEstimatedTime(scaffold_decisions)
    IN  [skill_name |-> skill.name,
         skill_color |-> skill.color,
         block_type |-> skill.block_type,
         use_scaffold |-> assessed /\ ~override,
         estimated_time |-> IF override
                            THEN estimate_activity_time(FALSE, skill.block_type, difficulty)
                            ELSE first_estimate,
         prompt_data |-> OverridePromptData(override, first_prompt, skill, template),
         sequence_position |-> i]

\* The decision of position i (0-based) for given outcomes of the random
\* draws, lines 118-162.  decision_factors, a list of explanatory strings,
\* is left out of the record.
PlanDecision(skills, i, scaffold_decisions, previous_scaffolds_count, subject, difficulty, available_time_minutes, time_flexibility, draw40, draw30, template) ==
    LET skill == skills[i + 1]
        assessed == should_use_full_scaffold(skill, subject, available_time_minutes,
                        i, Len(skills), previous_scaffolds_count, draw40, draw30)
        first_prompt == IF ~assessed THEN generate_simple_prompt(skill, template)
                        ELSE None
        first_estimate == estimate_activity_time(assessed, skill.block_type, difficulty)
        override == StrictOverride(time_flexibility, available_time_minutes,
                        assessed, first_estimate, Len(skills) - i,
                        available_time_minutes - SumEstimatedTime(scaffold_decisions))
    IN  [skill_name |-> skill.name,
         skill_color |-> skill.color,
         block_type |-> skill.block_type,
         use_scaffold |-> assessed /\ ~override,
         estimated_time |-> IF override
                            THEN estimate_activity_time(FALSE, skill.block_type, difficulty)
                            ELSE first_estimate,
         prompt_data |-> OverridePromptData(override, first_prompt, skill, template),
         sequence_position |-> i]

\* The decisions position i can get, one per outcome of the random draws.
PlanDecisions(skills, i, scaffold_decisions, previous_scaffolds_count, subject, difficulty, available_time_minutes, time_flexibility) ==
    { PlanDecision(skills, i, scaffold_decisions, previous_scaffolds_count, subject,
                   difficulty, available_time_minutes, time_flexibility,
                   draw40, draw30, template)
      : draw40 \in BOOLEAN, draw30 \in BOOLEAN, template \in PromptTemplates }

\* Faulty variant of UpdateScaffoldsCount: every decision is counted,
\* whatever became of it.
count_EveryDecision(count, decision) ==
    count + 1

\* Lines 167-168: the count goes up after a decision that is, once the
\* strict-time rule has been applied, a full scaffold.
UpdateScaffoldsCount(count, decision) ==
    IF decision.use_scaffold THEN count + 1 ELSE count

\* The loop of _plan_scaffolding_strategy from position i (0-based) on, for
\* a given sequence of outcomes of the random draws, one per position.
RECURSIVE PlanLoop(_, _, _, _, _, _, _, _, _)
PlanLoop(skills, i, scaffold_decisions, previous_scaffolds_count, subject, difficulty, available_time_minutes, time_flexibility, draws) ==
    IF i >= Len(skills) THEN scaffold_decisions
    ELSE LET decision == PlanDecision(skills, i, scaffold_decisions,
                             previous_scaffolds_count, subject, difficulty,
                             available_time_minutes, time_flexibility,
                             draws[i + 1].draw40, draws[i + 1].draw30,
                             draws[i + 1].template)
         IN  PlanLoop(skills, i + 1, Append(scaffold_decisions, decision),
                      UpdateScaffoldsCount(previous_scaffolds_count, decision),
                      subject, difficulty, available_time_minutes, time_flexibility,
                      draws)

\* EnhancedBlockGenerator._plan_scaffolding_strategy
_plan_scaffolding_strategy(skills, subject, difficulty, available_time_minutes, time_flexibility, draws) ==
    PlanLoop(skills, 0, <<>>, 0, subject, difficulty, available_time_minutes,
             time_flexibility, draws)

(***************************************************************************)
(* Block construction.  LessonBlock (app/models/responses.py) declares     *)
(* complexity_level and complexity_display_name without a default, so the  *)
(* constructor raises a validation error unless both are supplied.         *)
(***************************************************************************)
LessonBlockRequired ==
    {"id", "type", "title", "description", "steps", "skill", "supporting_question",
     "complexity_level", "complexity_display_name"}

\* The keyword arguments of the two LessonBlock(...) calls of the generator.
PromptBlockArguments ==
    {"id", "type", "title", "description", "steps", "skill", "supporting_question",
     "media", "interaction_type", "follow_up_questions", "success_indicators",
     "estimated_duration"}

ScaffoldBlockArguments ==
    {"id", "type", "title", "description", "steps", "skill", "supporting_question",
     "media"}

\* Whether LessonBlock(**arguments) validates.
LessonBlockValidates(arguments, type, color) ==
    /\ LessonBlockRequired \subseteq arguments
    /\ type \in BlockType
    /\ color \in SkillColor

LessonBlock(type, skill, sequence_order) ==
    [type |-> type, skill |-> skill.name, color |-> skill.color,
     sequence_order |-> sequence_order]

MinTitleLength == 5

MinSteps == 2

MinDescriptionLength == 20

MinSupportingQuestionLength == 10

\* A required field that the generated content does not have.
Absent == -1

\* The generator gave up: LLMGenerationError after the last retry.
GenerationFailed ==
    [title |-> 0, description |-> 0, steps |-> 0, supporting_question |-> 0]

\* Generated content (the parsed JSON) by the lengths of its stripped title,
\* description and supporting question and the number of its steps.
ValidContent ==
    [title |-> MinTitleLength, description |-> MinDescriptionLength,
     steps |-> MinSteps, supporting_question |-> MinSupportingQuestionLength]

\* What the content generator can answer: valid content, and content with
\* one field just below its threshold or without its description.
LLMContents ==
    { ValidContent,
      [ValidContent EXCEPT !.title = MinTitleLength - 1],
      [ValidContent EXCEPT !.description = MinDescriptionLength - 1],
      [ValidContent EXCEPT !.description = Absent],
      [ValidContent EXCEPT !.steps = MinSteps - 1],
      [ValidContent EXCEPT !.supporting_question = MinSupportingQuestionLength - 1] }

\* The loop over required_fields that both validators start with.
HasRequiredFields(content) ==
    /\ content.title # Absent /\ content.description # Absent
    /\ content.steps # Absent /\ content.supporting_question # Absent

\* EnhancedBlockGenerator._validate_generated_content: TRUE when no
\* ValidationError is raised.
_validate_generated_content(content) ==
    /\ HasRequiredFields(content)
    /\ content.title >= MinTitleLength
    /\ content.steps >= MinSteps

\* BlockGenerator._validate_generated_content (the validator of the basic
\* generator), for content without the optional fields.
BlockGenerator_validate_generated_content(content) ==
    /\ HasRequiredFields(content)
    /\ content.title >= MinTitleLength
    /\ content.description >= MinDescriptionLength
    /\ content.steps >= MinSteps
    /\ content.supporting_question >= MinSupportingQuestionLength

(***************************************************************************)
(* Skill metadata verification of the basic generator.  The enhanced       *)
(* catalog lists every skill name once.                                    *)
(***************************************************************************)
\* BlockGenerator._verify_skill_metadata
_verify_skill_metadata(enhanced, skill) ==
    IF \E e \in enhanced : e.name = skill.name
    THEN LET correct == CHOOSE e \in enhanced : e.name = skill.name
         IN  IF skill.color # correct.color \/ skill.block_type # correct.block_type
             THEN Skill(skill.name, correct.color, correct.block_type)
             ELSE skill
    ELSE skill

(***************************************************************************)
(* Storage.  insert_ok tells whether the insert into the lessons table     *)
(* returned data.                                                          *)
(***************************************************************************)
Returned(value) == [raised |-> FALSE, value |-> value]

Raised(error) == [raised |-> TRUE, value |-> error]

\* LessonRepository.create_lesson
create_lesson(lesson, insert_ok) ==
    IF insert_ok THEN Returned(lesson.id) ELSE Raised("DatabaseError")

\* Faulty variant of save_lesson: the DatabaseError of the repository is
\* raised to the caller.
save_RaisesDatabaseError(lesson_plan, insert_ok) ==
    create_lesson(lesson_plan, insert_ok)

\* StorageService.save_lesson: the except clause answers "abc".
save_lesson(lesson_plan, insert_ok) ==
    IF create_lesson(lesson_plan, insert_ok).raised
    THEN Returned("abc")
    ELSE create_lesson(lesson_plan, insert_ok)

(***************************************************************************)
(* Retrieval.  index tells whether the Pinecone index was connected at     *)
(* construction; outcome is what a query does when it is: it raises        *)
(* ("failed"), matches nothing ("empty") or matches ("found").  Every      *)
(* retrieval method catches the exception of a failed query.               *)
(***************************************************************************)
QueryOutcomes == {"failed", "empty", "found"}

\* Without an index a retrieval method returns before it queries.
Outcomes(index) == IF index THEN QueryOutcomes ELSE {"unavailable"}

\* CurriculumRetriever.retrieve_context
retrieve_context(index, outcome) ==
    IF index /\ outcome = "found" THEN Returned("chunks") ELSE Returned("")

\* CurriculumRetriever.retrieve_by_skill
retrieve_by_skill(index, outcome) ==
    IF index /\ outcome = "found" THEN Returned("examples") ELSE Returned("")

\* Faulty variant of retrieve_scaffold_resources: the exception of a failed
\* query is raised to the caller.
resources_RaiseOnFailure(index, outcome) ==
    IF index /\ outcome = "failed" THEN Raised("RAGRetrievalError")
    ELSE IF index /\ outcome = "found" THEN Returned("pdfs")
    ELSE Returned("")

\* ScaffoldResourceRetriever.retrieve_scaffold_resources
retrieve_scaffold_resources(index, outcome) ==
    IF index /\ outcome = "found" THEN Returned("pdfs") ELSE Returned("")

\* The log entry of a retrieval whose query raised.
RetrievalError(method, index, outcome) ==
    IF index /\ outcome = "failed" THEN {method} ELSE {}

\* ScaffoldingAssessor.get_scaffolding_summary
get_scaffolding_summary(scaffold_decisions, total_time_estimate) ==
    LET full == Cardinality({i \in DOMAIN scaffold_decisions :
                                 scaffold_decisions[i].use_scaffold})
    IN  [total_activities |-> Len(scaffold_decisions),
         full_scaffolds |-> full,
         simple_prompts |-> Len(scaffold_decisions) - full,
         total_time_estimate |-> total_time_estimate]

VARIABLES
    probe,                      \* inputs of a function under test
    probe_out,                  \* its results, None before the call
    request,                    \* the LessonRequest being served
    catalog,                    \* the enhanced and the static skill catalog
    retriever,                  \* the retrievers: index connected, errors logged
    pc,                         \* where generate_adaptive_lesson stands
    skills,                     \* selected_skills
    context,                    \* generation_context
    scaffold_decisions,         \* the plan built by _plan_scaffolding_strategy
    previous_scaffolds_count,   \* its running count of full scaffolds
    lesson_blocks,              \* blocks generated so far
    total_estimated_time,       \* running total of the generation loop
    llm_calls,                  \* positions of the content generator calls
    generated_content,          \* content of the last generator answer
    failure,                    \* why the request failed, "none" otherwise
    scaffolding_summary,        \* result of get_scaffolding_summary
    saved,                      \* lesson plans handed to the storage service
    response,                   \* the LessonResponse returned to the caller
    clock,                      \* time.time() in milliseconds
    handlers,                   \* the calls of generate_adaptive_lesson under way
    lessons                     \* the rows of the lessons table

probeVars == <<probe, probe_out>>

lessonVars ==
    <<request, catalog, retriever, pc, skills, context, scaffold_decisions,
      previous_scaffolds_count, lesson_blocks, total_estimated_time, llm_calls,
      generated_content, failure, scaffolding_summary, saved, response>>

handlerVars == <<clock, handlers, lessons>>

vars == <<probeVars, lessonVars, handlerVars>>

\* No concurrent calls are followed.
NoHandlers == clock = 0 /\ handlers = <<>> /\ lessons = {}

\* No lesson request is being served (function-level specifications).
NoLesson ==
    /\ request = None /\ catalog = None /\ retriever = None
    /\ pc = "idle" /\ skills = <<>>
    /\ context = None /\ scaffold_decisions = <<>> /\ previous_scaffolds_count = 0
    /\ lesson_blocks = <<>> /\ total_estimated_time = 0 /\ llm_calls = <<>>
    /\ generated_content = None /\ failure = "none" /\ scaffolding_summary = None
    /\ saved = <<>> /\ response = None
    /\ NoHandlers

(***************************************************************************)
(* Function-level specification: Init draws the inputs, one action per     *)
(* function applies it.                                                    *)
(***************************************************************************)
ProbeInputs ==
    [fn : {"colors"}, d1 : Difficulties, d2 : Difficulties,
     block_type : {"MapIt"}]
    \cup
    [fn : {"time"}, d1 : Difficulties, d2 : {0},
     block_type : {s.block_type : s \in SkillUniverse \cup {UnknownTypeSkill}}]

InitPure ==
    /\ probe \in ProbeInputs
    /\ probe_out = None
    /\ NoLesson

ApplyGetColors ==
    /\ probe.fn = "colors"
    /\ probe_out = None
    /\ probe_out' = [lo |-> _get_colors_for_difficulty(probe.d1),
                     hi |-> _get_colors_for_difficulty(probe.d2)]
    /\ UNCHANGED <<probe, lessonVars, handlerVars>>

ApplyEstimateTime ==
    /\ probe.fn = "time"
    /\ probe_out = None
    /\ probe_out' = [prompt |-> estimate_activity_time(FALSE, probe.block_type, probe.d1),
                     full   |-> estimate_activity_time(TRUE, probe.block_type, probe.d1)]
    /\ UNCHANGED <<probe, lessonVars, handlerVars>>

NextPure == ApplyGetColors \/ ApplyEstimateTime

SpecPure == InitPure /\ [][NextPure]_vars

(***************************************************************************)
(* Assessment-level specification: Init draws the arguments and the        *)
(* outcomes of the random draws, and the same call is made twice, of       *)
(* should_use_full_scaffold or of _plan_scaffolding_strategy.              *)
(***************************************************************************)
AssessTimes == {NoTime, 15, 23, 45}

AssessInputs ==
    [fn : {"assess"}, skill : SkillUniverse \cup {UnknownTypeSkill},
     available_time_minutes : AssessTimes,
     sequence_position : 0..(MaxSteps - 1), total_steps : 1..MaxSteps,
     previous_scaffolds_count : 0..(MaxSteps - 1),
     draw40 : BOOLEAN, draw30 : BOOLEAN]

PlanProbeSteps == 2

PlanProbeSkills ==
    {s \in SkillUniverse : s.name \in {"Retrieve", "Compare", "Hypothesise"}}

Draws == [draw40 : BOOLEAN, draw30 : BOOLEAN, template : PromptTemplates]

PlanInputs ==
    [fn : {"plan"}, skills : [1..PlanProbeSteps -> PlanProbeSkills],
     available_time_minutes : {NoTime, 23, 45},
     time_flexibility : {"strict", "flexible"},
     draws : [1..PlanProbeSteps -> Draws]]

PlanProbeDifficulty == 60

InitAssess ==
    /\ probe \in AssessInputs \cup PlanInputs
    /\ probe_out = [runs |-> <<>>]
    /\ NoLesson

\* Faulty variant of scaffolding_assessor: the instance remembers that it
\* was called and answers "prompt" from its second call on.
assessor_RemembersCalls(p, earlier_runs) ==
    IF earlier_runs = <<>>
    THEN should_use_full_scaffold(p.skill, "Science", p.available_time_minutes,
             p.sequence_position, p.total_steps, p.previous_scaffolds_count,
             p.draw40, p.draw30)
    ELSE FALSE

\* A call of should_use_full_scaffold on the global instance
\* scaffolding_assessor.  The attributes of the instance are the tables
\* that __init__ sets; no method assigns them, so the calls made before
\* leave nothing behind.
scaffolding_assessor(p, earlier_runs) ==
    should_use_full_scaffold(p.skill, "Science", p.available_time_minutes,
        p.sequence_position, p.total_steps, p.previous_scaffolds_count,
        p.draw40, p.draw30)

\* One run of should_use_full_scaffold, the first or the second.
Assess ==
    /\ probe.fn = "assess"
    /\ Len(probe_out.runs) < 2
    /\ probe_out' = [runs |-> Append(probe_out.runs,
                                     scaffolding_assessor(probe, probe_out.runs))]
    /\ UNCHANGED <<probe, lessonVars, handlerVars>>

\* One run of _plan_scaffolding_strategy, the first or the second.
Plan ==
    /\ probe.fn = "plan"
    /\ Len(probe_out.runs) < 2
    /\ probe_out' = [runs |-> Append(probe_out.runs,
                          _plan_scaffolding_strategy(probe.skills, "Science",
                              PlanProbeDifficulty, probe.available_time_minutes,
                              probe.time_flexibility, probe.draws))]
    /\ UNCHANGED <<probe, lessonVars, handlerVars>>

NextAssess == Assess \/ Plan

SpecAssess == InitAssess /\ [][NextAssess]_vars

(***************************************************************************)
(* Generator-level specification: one call of                              *)
(* LLMService.generate_lesson_block.  OpenAIClient.generate is wrapped by  *)
(* tenacity's retry(stop_after_attempt(3), wait_exponential(multiplier=1,  *)
(* min=4, max=60), reraise=True): every exception of an attempt is turned  *)
(* into LLMGenerationError and retried until the stop condition holds,     *)
(* then the last error is raised again.  There is no fallback client.      *)
(***************************************************************************)
MaxAttempts == 3

WaitMultiplier == 1

WaitMin == 4

WaitMax == 60

\* What one attempt can come to: a parsed answer, or one of the errors of
\* lines 86-88, 111-113, 115-117 and 119-121.
AttemptOutcomes == {"ok", "invalid_json", "rate_limit", "api_error", "unexpected"}

Complexities == {"simple", "standard", "advanced"}

RECURSIVE Pow2(_)
Pow2(n) == IF n <= 0 THEN 1 ELSE 2 * Pow2(n - 1)

\* wait_exponential: multiplier * 2 ** (attempt_number - 1), kept between
\* min and max seconds.
wait_exponential(attempt_number) ==
    LET exp == WaitMultiplier * Pow2(attempt_number - 1)
    IN  IF exp < WaitMin THEN WaitMin ELSE IF exp > WaitMax THEN WaitMax ELSE exp

\* Faulty variant of stop_after_attempt: the stop condition holds one
\* attempt late.
stop_OneAttemptLate(attempt_number) ==
    attempt_number > MaxAttempts

stop_after_attempt(attempt_number) ==
    attempt_number >= MaxAttempts

\* generate_lesson_block, lines 160-164: the parameters of the call.
GenerationParameters(complexity) ==
    [use_advanced_model |-> complexity = "advanced",
     temperature |-> IF complexity = "simple" THEN 6 ELSE 7,
     max_tokens |-> IF complexity = "simple" THEN 800 ELSE 1200]

LLMInputs == [fn : {"generate"}, complexity : Complexities]

InitLLM ==
    /\ probe \in LLMInputs
    /\ probe_out = [status |-> "calling", attempts |-> <<>>, waited |-> 0,
                    parameters |-> GenerationParameters(probe.complexity),
                    result |-> None]
    /\ NoLesson

\* One attempt of OpenAIClient.generate and what tenacity makes of it.
AttemptGenerate ==
    /\ probe.fn = "generate"
    /\ probe_out.status = "calling"
    /\ \E outcome \in AttemptOutcomes :
           LET attempts == Append(probe_out.attempts, outcome)
           IN  probe_out' =
                   [probe_out EXCEPT
                       !.attempts = attempts,
                       !.status = IF outcome = "ok" THEN "returned"
                                  ELSE IF stop_after_attempt(Len(attempts)) THEN "raised"
                                  ELSE "waiting",
                       !.result = IF outcome = "ok" THEN Returned(ValidContent)
                                  ELSE IF stop_after_attempt(Len(attempts))
                                  THEN Raised("LLMGenerationError")
                                  ELSE None]
    /\ UNCHANGED <<probe, lessonVars, handlerVars>>

\* The sleep between two attempts is over.
WaitBeforeRetry ==
    /\ probe.fn = "generate"
    /\ probe_out.status = "waiting"
    /\ probe_out' = [probe_out EXCEPT
                         !.status = "calling",
                         !.waited = @ + wait_exponential(Len(probe_out.attempts))]
    /\ UNCHANGED <<probe, lessonVars, handlerVars>>

NextLLM == AttemptGenerate \/ WaitBeforeRetry

\* The event loop runs the coroutine on: an attempt that can be made is
\* made and a sleep ends.
SpecLLM == InitLLM /\ [][NextLLM]_vars /\ WF_vars(NextLLM)

(***************************************************************************)
(* Sequence-level specification: Init draws the arguments of               *)
(* _generate_varied_scaffold_sequence, of the time-aware service or of the *)
(* lesson service, and the call returns one of the sequences the random    *)
(* draws allow.                                                            *)
(***************************************************************************)
SequenceSteps == MaxSteps + 2

SequenceInputs ==
    [fn : {"sequence"}, service : {"time_aware", "lesson"},
     step_count : 1..SequenceSteps, difficulty : Difficulties,
     prefer_variety : BOOLEAN]

InitSequence ==
    /\ probe \in SequenceInputs
    /\ probe_out = None
    /\ NoLesson

GenerateVariedSequence ==
    /\ probe.fn = "sequence"
    /\ probe_out = None
    /\ \E sequence \in
           IF probe.service = "time_aware"
           THEN _generate_varied_scaffold_sequence(probe.step_count, probe.difficulty,
                                                   probe.prefer_variety)
           ELSE LessonService_generate_varied_scaffold_sequence(probe.step_count,
                                                                probe.difficulty) :
           probe_out' = [sequence |-> sequence]
    /\ UNCHANGED <<probe, lessonVars, handlerVars>>

NextSequence == GenerateVariedSequence

SpecSequence == InitSequence /\ [][NextSequence]_vars

(***************************************************************************)
(* Selection-level specification: Init draws a catalog pair and the        *)
(* arguments of select_skills_for_lesson, SelectSkills performs the call.  *)
(***************************************************************************)
SmallCatalogs == {c \in SUBSET SkillUniverse : Cardinality(c) <= 2}

\* A static catalog file with every color key, and the empty file {}.
StaticCatalog(entries) == [colors |-> SkillColor, skills |-> entries]

EmptyStaticFile == [colors |-> {}, skills |-> {}]

EnhancedCatalogs == SmallCatalogs \cup {SkillUniverse}

StaticCatalogs ==
    {StaticCatalog(c) : c \in SmallCatalogs \cup {SkillUniverse}} \cup {EmptyStaticFile}

SelectDifficulties == {30, 50, 70, 90}

Subjects == {"Science", "English"}

PreferredBlocks == UNION {[1..n -> RequestBlockType] : n \in 0..MaxSteps}

SelectInputs ==
    {p \in [fn : {"select"}, enhanced : EnhancedCatalogs, static : StaticCatalogs,
            difficulty : SelectDifficulties, step_count : 1..MaxSteps,
            subject : Subjects, preferred_blocks : PreferredBlocks] :
        p.enhanced \in {{}, SkillUniverse} \/ p.static = StaticCatalog(SkillUniverse)}

InitSelect ==
    /\ probe \in SelectInputs
    /\ probe_out = None
    /\ NoLesson

SelectSkills ==
    /\ probe.fn = "select"
    /\ probe_out = None
    /\ \E r \in select_skills_for_lesson(probe.enhanced, probe.static, probe.difficulty,
                    probe.step_count, probe.subject, probe.preferred_blocks) :
           probe_out' = r
    /\ UNCHANGED <<probe, lessonVars, handlerVars>>

NextSelect == SelectSkills

SpecSelect == InitSelect /\ [][NextSelect]_vars

(***************************************************************************)
(* TimeAwareLessonService.generate_adaptive_lesson: one lesson request     *)
(* from its arrival to its response or failure.                            *)
(***************************************************************************)
NoUser == ""

LessonDifficulties == {20, 60, 80}

AvailableTimes == {NoTime, 15, 23, 45, 90}

TimeFlexibilities == {"strict", "moderate", "flexible"}

LessonPreferredBlocks ==
    {<<>>, <<"BuildIt">>, <<"MapIt", "SayIt", "BuildIt">>,
     <<"BuildIt", "BuildIt", "BuildIt">>}

MinMinutesPerStep == 5

\* The subject of a request only enters the scores of the RAG selection,
\* which the selection-level specification varies.
LessonSubjects == {"Science"}

\* LessonRequest with its validators; the user_id argument of the call is
\* kept with the request.
LessonRequests ==
    {r \in [difficulty : LessonDifficulties, step_count : 1..MaxSteps,
            subject : LessonSubjects, preferred_blocks : LessonPreferredBlocks,
            available_time_minutes : AvailableTimes,
            time_flexibility : TimeFlexibilities, prefer_variety : BOOLEAN,
            user_id : {NoUser, "teacher"}] :
        r.available_time_minutes # NoTime
            => r.available_time_minutes >= r.step_count * MinMinutesPerStep}

Catalogs(enhanced, static) == [enhanced |-> enhanced, static |-> static]

\* An entry of the static catalog file that disagrees with the enhanced
\* catalog about the color and the block type of Connect.
StaleConnect == Skill("Connect", "Yellow", "SayIt")

LessonCatalogs ==
    {Catalogs(SkillUniverse, StaticCatalog(SkillUniverse)),
     Catalogs({}, StaticCatalog(SkillUniverse)),
     Catalogs({Skill("Retrieve", "Green", "MapIt"), Skill("Connect", "Blue", "BuildIt")},
              StaticCatalog(SkillUniverse)),
     Catalogs(SkillUniverse, StaticCatalog({Skill("Hypothesise", "Red", "BuildIt")})),
     Catalogs(SkillUniverse, StaticCatalog({StaleConnect})),
     Catalogs({}, StaticCatalog({})),
     Catalogs({}, EmptyStaticFile)}

\* The state in which a request is received.
Received ==
    /\ probe = None /\ probe_out = None
    /\ pc = "received" /\ skills = <<>> /\ context = None
    /\ scaffold_decisions = <<>> /\ previous_scaffolds_count = 0
    /\ lesson_blocks = <<>> /\ total_estimated_time = 0 /\ llm_calls = <<>>
    /\ generated_content = None /\ failure = "none" /\ scaffolding_summary = None
    /\ saved = <<>> /\ response = None
    /\ NoHandlers

NoIndex == [index |-> FALSE, errors |-> {}]

ConnectedIndex == [index |-> TRUE, errors |-> {}]

\* A deployment whose Pinecone index was not found at construction.
Init ==
    /\ request \in LessonRequests
    /\ catalog \in LessonCatalogs
    /\ retriever = NoIndex
    /\ Received

\* Steps 1 and 2: plan the scaffold sequence and select the skills.
SelectSkillsForLesson ==
    /\ pc = "received"
    /\ \E preferred_scaffolds \in _plan_scaffold_sequence(request) :
       \E r \in select_skills_for_lesson(catalog.enhanced, catalog.static,
                    request.difficulty, request.step_count, request.subject,
                    preferred_scaffolds) :
           IF r.ok
           THEN skills' = r.skills /\ pc' = "selected" /\ UNCHANGED failure
           ELSE pc' = "failed" /\ failure' = "selection" /\ UNCHANGED skills
    /\ UNCHANGED <<probeVars, handlerVars, request, catalog, retriever, context, scaffold_decisions,
                   previous_scaffolds_count, lesson_blocks, total_estimated_time,
                   llm_calls, generated_content, scaffolding_summary, saved, response>>

\* Step 3: build_lesson_context and the assignment of the request's
\* difficulty to the context.  Its except clause answers with a context
\* without curriculum_context.
BuildLessonContext ==
    /\ pc = "selected"
    /\ \E outcome \in Outcomes(retriever.index) :
           LET curriculum_context == retrieve_context(retriever.index, outcome)
           IN  /\ context' = [subject |-> request.subject,
                              difficulty |-> request.difficulty,
                              curriculum_context |->
                                  IF curriculum_context.raised THEN "None"
                                  ELSE curriculum_context.value]
               /\ retriever' = [retriever EXCEPT !.errors = @ \cup
                      RetrievalError(<<"retrieve_context", 0>>, retriever.index, outcome)]
    /\ pc' = "planning"
    /\ UNCHANGED <<probeVars, handlerVars, request, catalog, skills, scaffold_decisions,
                   previous_scaffolds_count, lesson_blocks, total_estimated_time,
                   llm_calls, generated_content, failure, scaffolding_summary,
                   saved, response>>

\* One iteration of the loop of _plan_scaffolding_strategy.
PlanPosition ==
    /\ pc = "planning"
    /\ Len(scaffold_decisions) < Len(skills)
    /\ \E decision \in PlanDecisions(skills, Len(scaffold_decisions), scaffold_decisions,
                           previous_scaffolds_count, context.subject, context.difficulty,
                           request.available_time_minutes, request.time_flexibility) :
           /\ scaffold_decisions' = Append(scaffold_decisions, decision)
           /\ previous_scaffolds_count' =
                  UpdateScaffoldsCount(previous_scaffolds_count, decision)
    /\ UNCHANGED <<probeVars, handlerVars, request, catalog, retriever, pc, skills, context, lesson_blocks,
                   total_estimated_time, llm_calls, generated_content, failure,
                   scaffolding_summary, saved, response>>

\* Faulty variant of PlanningComplete: planning hands over after its first
\* decision.
planning_ReturnsEarly(decisions, selected_skills) ==
    Len(decisions) >= 1 \/ Len(decisions) = Len(selected_skills)

\* _plan_scaffolding_strategy returns once its loop has visited every skill.
PlanningComplete(decisions, selected_skills) ==
    Len(decisions) = Len(selected_skills)

\* generate_adaptive_lesson_blocks, lines 61-63: the generation loop starts.
StartGeneration ==
    /\ pc = "planning"
    /\ PlanningComplete(scaffold_decisions, skills)
    /\ pc' = "generating"
    /\ lesson_blocks' = <<>>
    /\ total_estimated_time' = 0
    /\ UNCHANGED <<probeVars, handlerVars, request, catalog, retriever, skills, context, scaffold_decisions,
                   previous_scaffolds_count, llm_calls, generated_content, failure,
                   scaffolding_summary, saved, response>>

\* Faulty variant of RaiseLLMGenerationError: the except clause returns the
\* blocks generated so far instead of raising.
error_ReturnsPartialLesson == "assembled"

\* The except clause of generate_adaptive_lesson_blocks re-raises every
\* exception as LLMGenerationError, and generate_adaptive_lesson re-raises
\* it to the caller: the request has failed.
RaiseLLMGenerationError == "failed"

\* A position whose block could not be produced: the loop is left.
BlockFailed(cause) ==
    /\ failure' = cause
    /\ pc' = RaiseLLMGenerationError
    /\ UNCHANGED <<lesson_blocks, total_estimated_time>>

BlockAppended(block, decision) ==
    /\ lesson_blocks' = Append(lesson_blocks, block)
    /\ total_estimated_time' = total_estimated_time + decision.estimated_time
    /\ UNCHANGED <<pc, failure>>

\* One iteration of the generation loop for a full-scaffold decision:
\* _generate_full_scaffold_block and the append.  An exception of the
\* resource retrieval would leave the loop; build_block_context catches
\* the one of the skill context; build_block_prompt raises for a block
\* type without a template.
GenerateFullScaffoldBlock ==
    /\ pc = "generating"
    /\ Len(lesson_blocks) < Len(skills)
    /\ LET i == Len(lesson_blocks)
           skill == skills[i + 1]
           decision == scaffold_decisions[i + 1]
           block == LessonBlock(skill.block_type, skill, i)
       IN  /\ decision.use_scaffold
           /\ \E resources_outcome \in Outcomes(retriever.index),
                 skill_outcome \in Outcomes(retriever.index) :
                LET scaffold_resources ==
                        retrieve_scaffold_resources(retriever.index, resources_outcome)
                    errors ==
                        RetrievalError(<<"retrieve_scaffold_resources", i>>,
                                       retriever.index, resources_outcome)
                        \cup (IF scaffold_resources.raised THEN {}
                              ELSE IF retrieve_by_skill(retriever.index, skill_outcome).raised
                              THEN {}
                              ELSE RetrievalError(<<"retrieve_by_skill", i>>,
                                                  retriever.index, skill_outcome))
                IN  /\ retriever' = [retriever EXCEPT !.errors = @ \cup errors]
                    /\ IF scaffold_resources.raised
                       THEN /\ BlockFailed("retrieval")
                            /\ UNCHANGED <<llm_calls, generated_content>>
                       ELSE IF skill.block_type \notin RequestBlockType
                       THEN /\ BlockFailed("prompt")
                            /\ UNCHANGED <<llm_calls, generated_content>>
                       ELSE \E answer \in {GenerationFailed} \cup LLMContents :
                              /\ llm_calls' = Append(llm_calls, i)
                              /\ IF answer = GenerationFailed
                                 THEN /\ BlockFailed("generation")
                                      /\ UNCHANGED generated_content
                                 ELSE /\ generated_content' = answer
                                      /\ IF ~_validate_generated_content(answer)
                                         THEN BlockFailed("validation")
                                         ELSE IF ~LessonBlockValidates(ScaffoldBlockArguments,
                                                      skill.block_type, skill.color)
                                         THEN BlockFailed("block")
                                         ELSE BlockAppended(block, decision)
    /\ UNCHANGED <<probeVars, handlerVars, request, catalog, skills, context, scaffold_decisions,
                   previous_scaffolds_count, scaffolding_summary, saved, response>>

\* Faulty variant of GenerateSimplePromptBlock: the content generator is
\* called for the lightweight block as well.
prompt_CallsGenerator ==
    /\ pc = "generating"
    /\ Len(lesson_blocks) < Len(skills)
    /\ LET i == Len(lesson_blocks)
           skill == skills[i + 1]
           decision == scaffold_decisions[i + 1]
           block == LessonBlock("Prompt", skill, i)
       IN  /\ ~decision.use_scaffold
           /\ llm_calls' = Append(llm_calls, i)
           /\ IF ~LessonBlockValidates(PromptBlockArguments, "Prompt", skill.color)
              THEN BlockFailed("block")
              ELSE BlockAppended(block, decision)
    /\ UNCHANGED <<probeVars, handlerVars, request, catalog, retriever, skills, context, scaffold_decisions,
                   previous_scaffolds_count, generated_content,
                   scaffolding_summary, saved, response>>

\* One iteration of the generation loop for a lightweight decision:
\* _generate_simple_prompt_block and the append.
GenerateSimplePromptBlock ==
    /\ pc = "generating"
    /\ Len(lesson_blocks) < Len(skills)
    /\ LET i == Len(lesson_blocks)
           skill == skills[i + 1]
           decision == scaffold_decisions[i + 1]
           block == LessonBlock("Prompt", skill, i)
       IN  /\ ~decision.use_scaffold
           /\ IF ~LessonBlockValidates(PromptBlockArguments, "Prompt", skill.color)
              THEN BlockFailed("block")
              ELSE BlockAppended(block, decision)
    /\ UNCHANGED <<probeVars, handlerVars, request, catalog, retriever, skills, context, scaffold_decisions,
                   previous_scaffolds_count, llm_calls, generated_content,
                   scaffolding_summary, saved, response>>

\* The loop is over: get_scaffolding_summary, and the lesson metadata of
\* steps 5 and 6 of the service.
AssembleLesson ==
    /\ pc = "generating"
    /\ Len(lesson_blocks) >= Len(skills)
    /\ scaffolding_summary' =
           get_scaffolding_summary(scaffold_decisions, total_estimated_time)
    /\ pc' = "assembled"
    /\ UNCHANGED <<probeVars, handlerVars, request, catalog, retriever, skills, context, scaffold_decisions,
                   previous_scaffolds_count, lesson_blocks, total_estimated_time,
                   llm_calls, generated_content, failure, saved, response>>

\* lesson_id = str(int(time.time() * 1000)), line 44.
lesson_id == "1730000000000"

\* Step 8: the LessonResponse is returned.
Respond ==
    /\ response' = [lesson_id |-> lesson_id, blocks |-> lesson_blocks,
                    metadata |-> scaffolding_summary]
    /\ pc' = "responded"
    /\ UNCHANGED failure

\* Steps 7 and 8: save the lesson plan when a user is given, then answer.
\* An exception of save_lesson would be raised to the caller.
SaveAndRespond ==
    /\ pc = "assembled"
    /\ IF request.user_id # NoUser
       THEN \E insert_ok \in BOOLEAN :
                LET lesson_plan == [id |-> lesson_id, user_id |-> request.user_id,
                                    blocks |-> lesson_blocks,
                                    metadata |-> scaffolding_summary]
                    outcome == save_lesson(lesson_plan, insert_ok)
                IN  /\ saved' = Append(saved, [plan |-> lesson_plan,
                                               stored |-> insert_ok,
                                               outcome |-> outcome])
                    /\ IF outcome.raised
                       THEN /\ pc' = "failed"
                            /\ failure' = "storage"
                            /\ UNCHANGED response
                       ELSE Respond
       ELSE /\ UNCHANGED saved
            /\ Respond
    /\ UNCHANGED <<probeVars, handlerVars, request, catalog, retriever, skills, context,
                   scaffold_decisions, previous_scaffolds_count, lesson_blocks,
                   total_estimated_time, llm_calls, generated_content,
                   scaffolding_summary>>

Next ==
    \/ SelectSkillsForLesson
    \/ BuildLessonContext
    \/ PlanPosition
    \/ StartGeneration
    \/ GenerateFullScaffoldBlock
    \/ GenerateSimplePromptBlock
    \/ AssembleLesson
    \/ SaveAndRespond

Spec == Init /\ [][Next]_vars

(***************************************************************************)
(* The same service with a connected index, whose queries can fail, for    *)
(* requests of teachers without a time budget or with 45 minutes.          *)
(***************************************************************************)
RetrievalRequests ==
    {r \in LessonRequests :
        /\ r.user_id # NoUser /\ ~r.prefer_variety
        /\ r.available_time_minutes \in {NoTime, 45}
        /\ r.time_flexibility # "moderate"}

InitRetrieval ==
    /\ request \in RetrievalRequests
    /\ catalog \in LessonCatalogs
    /\ retriever = ConnectedIndex
    /\ Received

SpecRetrieval == InitRetrieval /\ [][Next]_vars

(***************************************************************************)
(* Planning-level specification: _plan_scaffolding_strategy is entered     *)
(* with a list of distinct skills one longer than the pipeline's lessons,  *)
(* and PlanPosition runs its loop.                                         *)
(***************************************************************************)
PlanningSteps == MaxSteps + 1

PlanningSkills ==
    {s \in SkillUniverse :
        s.name \in {"Retrieve", "Compare", "Categorise", "Connect", "Hypothesise"}}

PlanningSkillLists ==
    {l \in [1..PlanningSteps -> PlanningSkills] :
        \A i, j \in 1..PlanningSteps : i # j => l[i] # l[j]}

PlanningRequests ==
    [difficulty : {20, 60}, step_count : {PlanningSteps},
     subject : LessonSubjects, preferred_blocks : {<<>>},
     available_time_minutes : {NoTime, 45, 90},
     time_flexibility : {"strict", "flexible"}, prefer_variety : {FALSE},
     user_id : {NoUser}]

InitPlanning ==
    /\ request \in PlanningRequests
    /\ catalog = Catalogs({}, StaticCatalog(SkillUniverse))
    /\ retriever = NoIndex
    /\ skills \in PlanningSkillLists
    /\ context = [subject |-> request.subject, difficulty |-> request.difficulty,
                  curriculum_context |-> "None"]
    /\ pc = "planning"
    /\ probe = None /\ probe_out = None
    /\ scaffold_decisions = <<>> /\ previous_scaffolds_count = 0
    /\ lesson_blocks = <<>> /\ total_estimated_time = 0 /\ llm_calls = <<>>
    /\ generated_content = None /\ failure = "none" /\ scaffolding_summary = None
    /\ saved = <<>> /\ response = None
    /\ NoHandlers

NextPlanning == PlanPosition

SpecPlanning == InitPlanning /\ [][NextPlanning]_vars

(***************************************************************************)
(* Concurrent calls of generate_adaptive_lesson.  Each call takes its      *)
(* lesson id from the clock (line 44), generates the lesson, saves it when *)
(* a user is given and answers.  The calls share the clock and the lessons *)
(* table, whose id column is the primary key; they are coroutines of one   *)
(* event loop or run on several workers, so their steps interleave freely. *)
(***************************************************************************)
ConcurrentRequests == 2

MaxClock == 2

Handlers == 1..ConcurrentRequests

Users == {NoUser, "teacher", "colleague"}

\* str(int(time.time() * 1000)) at clock reading t.
TimestampId(t) == ToString(t)

\* The call has not reached line 44.
NoLessonId == ""

IdleHandler(user_id) ==
    [pc |-> "idle", user_id |-> user_id, lesson_id |-> NoLessonId,
     response |-> None]

InitConcurrent ==
    /\ clock = 0
    /\ handlers \in [Handlers -> {IdleHandler(u) : u \in Users}]
    /\ lessons = {}
    /\ probe = None /\ probe_out = None
    /\ request = None /\ catalog = None /\ retriever = None
    /\ pc = "idle" /\ skills = <<>>
    /\ context = None /\ scaffold_decisions = <<>> /\ previous_scaffolds_count = 0
    /\ lesson_blocks = <<>> /\ total_estimated_time = 0 /\ llm_calls = <<>>
    /\ generated_content = None /\ failure = "none" /\ scaffolding_summary = None
    /\ saved = <<>> /\ response = None

\* A millisecond passes.
Tick ==
    /\ clock < MaxClock
    /\ clock' = clock + 1
    /\ UNCHANGED <<probeVars, lessonVars, handlers, lessons>>

\* Line 44.
AssignLessonId(h) ==
    /\ handlers[h].pc = "idle"
    /\ handlers' = [handlers EXCEPT ![h].lesson_id = TimestampId(clock),
                                    ![h].pc = "generating"]
    /\ UNCHANGED <<probeVars, lessonVars, clock, lessons>>

\* Steps 1 to 6: the lesson is generated, or an exception is re-raised.
GenerateLesson(h) ==
    /\ handlers[h].pc = "generating"
    /\ \E generated \in BOOLEAN :
           handlers' = [handlers EXCEPT
                           ![h].pc = IF generated THEN "assembled" ELSE "failed"]
    /\ UNCHANGED <<probeVars, lessonVars, clock, lessons>>

\* Steps 7 and 8.  The insert yields a row unless the table has a row with
\* this id or the database refuses the row; save_lesson hides the failure.
SaveAndReturn(h) ==
    /\ handlers[h].pc = "assembled"
    /\ LET id == handlers[h].lesson_id
           row == [id |-> id, user_id |-> handlers[h].user_id, handler |-> h]
       IN  /\ IF handlers[h].user_id # NoUser
              THEN \E accepted \in BOOLEAN :
                       LET insert_ok == accepted /\ \A r \in lessons : r.id # id
                       IN  /\ ~save_lesson(row, insert_ok).raised
                           /\ lessons' = IF insert_ok THEN lessons \cup {row}
                                                      ELSE lessons
              ELSE UNCHANGED lessons
           /\ handlers' = [handlers EXCEPT ![h].response = [lesson_id |-> id],
                                           ![h].pc = "responded"]
    /\ UNCHANGED <<probeVars, lessonVars, clock>>

NextConcurrent ==
    \/ Tick
    \/ \E h \in Handlers : AssignLessonId(h)
    \/ \E h \in Handlers : GenerateLesson(h)
    \/ \E h \in Handlers : SaveAndReturn(h)

SpecConcurrent == InitConcurrent /\ [][NextConcurrent]_vars

SelectReturned == probe.fn = "select" /\ probe_out # None /\ probe_out.ok

(***************************************************************************)
(* C1: skill selection, including its fallback to the static selector,     *)
(* either returns exactly step_count skills or signals a                   *)
(* SkillSelectionError; it never returns a sequence of another length.     *)
(***************************************************************************)
C1_ExactlyStepCount ==
    SelectReturned => Len(probe_out.skills) = probe.step_count

\* The skills the selection may draw from: the whole enhanced catalog on
\* the RAG path, the skills of the permitted colors on the static path.
PermittedSkills ==
    IF probe_out.via = "rag" THEN probe.enhanced
    ELSE {s \in probe.static.skills :
              s.color \in _get_colors_for_difficulty(probe.difficulty)}

HasRepeat(seq) == \E i, j \in DOMAIN seq : i < j /\ seq[i].name = seq[j].name

(***************************************************************************)
(* C2: the returned sequence repeats a skill name only when the number of  *)
(* distinct skills available in the permitted category set is less than    *)
(* step_count.                                                             *)
(***************************************************************************)
C2_RepeatOnlyWhenExhausted ==
    (SelectReturned /\ HasRepeat(probe_out.skills))
        => Cardinality({s.name : s \in PermittedSkills}) < probe.step_count

GenerationStarted ==
    \/ pc \in {"generating", "assembled", "responded"}
    \/ failure \in {"retrieval", "prompt", "generation", "validation", "block"}

(***************************************************************************)
(* C3: if content generation fails at a full-scaffold position (the        *)
(* generator call fails, or its answer fails validation), the request      *)
(* fails: no response with blocks is returned and the storage service is   *)
(* never asked to save.                                                    *)
(***************************************************************************)
C3_GenerationFailureAbortsLesson ==
    failure \in {"generation", "validation"}
        => pc = "failed" /\ response = None /\ saved = <<>>

\* A generator answer with a too short title, for a request with a user
\* (whose lesson would have been saved) and several planned positions.
C3_Witness ==
    /\ failure = "validation"
    /\ generated_content # None /\ generated_content.title < MinTitleLength
    /\ request.user_id # NoUser
    /\ Len(scaffold_decisions) >= 2
    /\ pc = "failed" /\ saved = <<>>

(***************************************************************************)
(* C4: under strict time flexibility with fewer than 8 minutes per         *)
(* requested step, planning makes every decision lightweight, so the plan  *)
(* has no full-scaffold decision for a construction (BuildIt) skill.       *)
(***************************************************************************)
C4_TightStrictPlanIsLightweight ==
    (/\ request.time_flexibility = "strict"
     /\ request.available_time_minutes # NoTime
     /\ request.available_time_minutes < 8 * request.step_count)
        => \A i \in DOMAIN scaffold_decisions : ~scaffold_decisions[i].use_scaffold

(***************************************************************************)
(* C5: under strict time flexibility with a time budget, the estimated     *)
(* minutes of the decisions made by planning never add up to more than     *)
(* the budget.                                                             *)
(***************************************************************************)
C5_StrictPlanWithinBudget ==
    (request.time_flexibility = "strict" /\ request.available_time_minutes # NoTime)
        => SumEstimatedTime(scaffold_decisions) <= request.available_time_minutes

\* A complete strict plan in which the override switched a construction
\* skill to a prompt (a skill of the mandatory-scaffold set with time enough
\* for the assessor to choose a full scaffold) while another position kept
\* its full scaffold.
C5_Witness ==
    /\ request.time_flexibility = "strict"
    /\ request.available_time_minutes # NoTime
    /\ pc = "generating"
    /\ Len(scaffold_decisions) >= 3
    /\ \E i \in DOMAIN scaffold_decisions :
           /\ ~scaffold_decisions[i].use_scaffold
           /\ scaffold_decisions[i].block_type = "BuildIt"
           /\ scaffold_decisions[i].skill_name
                  \in scaffold_required[scaffold_decisions[i].skill_color]
           /\ request.available_time_minutes - 10 * (i - 1)
                  >= 15 * (Len(skills) - (i - 1))
    /\ \E i \in DOMAIN scaffold_decisions : scaffold_decisions[i].use_scaffold

(***************************************************************************)
(* C9: planning and generation are distinct phases: when generation        *)
(* starts every position has its decision, and from then on no decision    *)
(* (use_scaffold, estimated time, prompt data) changes.                    *)
(***************************************************************************)
C9_PlanFixedBeforeGeneration ==
    /\ [](GenerationStarted => Len(scaffold_decisions) = Len(skills))
    /\ [][GenerationStarted => scaffold_decisions' = scaffold_decisions]_vars

\* The first generator call has been issued for a plan of several
\* positions, one of them lightweight.
C9_Witness ==
    /\ llm_calls = <<0>>
    /\ Len(scaffold_decisions) >= 2
    /\ \E i \in DOMAIN scaffold_decisions : scaffold_decisions[i].prompt_data # None

(***************************************************************************)
(* C6 (as claimed): the permitted category set is monotone in difficulty:  *)
(* no category permitted at d is absent at any d' > d.                     *)
(***************************************************************************)
C6_Monotone ==
    (probe.fn = "colors" /\ probe_out # None /\ probe.d1 < probe.d2)
        => probe_out.lo \subseteq probe_out.hi

MinIndex(cs) == CHOOSE i \in {ColorIndex(c) : c \in cs} :
                    \A j \in {ColorIndex(c) : c \in cs} : i <= j

MaxIndex(cs) == CHOOSE i \in {ColorIndex(c) : c \in cs} :
                    \A j \in {ColorIndex(c) : c \in cs} : i >= j

(***************************************************************************)
(* C6 (amended): the permitted categories form a contiguous window of the  *)
(* category order, and as difficulty increases neither the lowest nor the  *)
(* highest permitted category moves down.                                  *)
(***************************************************************************)
C6_WindowMovesUp ==
    (probe.fn = "colors" /\ probe_out # None /\ probe.d1 < probe.d2)
        => /\ MinIndex(probe_out.lo) <= MinIndex(probe_out.hi)
           /\ MaxIndex(probe_out.lo) <= MaxIndex(probe_out.hi)
           /\ \A i \in MinIndex(probe_out.hi)..MaxIndex(probe_out.hi) :
                  color_progression[i] \in probe_out.hi

\* Two difficulties on either side of the 0.5 cutoff, where Green leaves
\* the permitted set.
C6_Witness ==
    /\ probe.fn = "colors" /\ probe_out # None
    /\ probe.d1 = 50 /\ probe.d2 = 51
    /\ "Green" \in probe_out.lo /\ "Green" \notin probe_out.hi

C11_PromptDataIffLightweight ==
    \A i \in DOMAIN scaffold_decisions :
        (scaffold_decisions[i].prompt_data # None) <=> ~scaffold_decisions[i].use_scaffold

\* A strict plan with a full-scaffold decision and a decision that the
\* strict-time rule switched: a lightweight decision for a skill of the
\* mandatory-scaffold set at a position without time pressure, which the
\* assessor can only have answered with a full scaffold.
C11_Witness ==
    /\ request.time_flexibility = "strict"
    /\ request.available_time_minutes # NoTime
    /\ \E i \in DOMAIN scaffold_decisions :
           /\ ~scaffold_decisions[i].use_scaffold
           /\ skills[i].name \in scaffold_required[skills[i].color]
           /\ ~TimePressure(skills[i], request.available_time_minutes, i - 1, Len(skills))
           /\ scaffold_decisions[i].prompt_data # None
           /\ scaffold_decisions[i].prompt_data.skill = skills[i].name
    /\ \E j \in DOMAIN scaffold_decisions :
           scaffold_decisions[j].use_scaffold /\ scaffold_decisions[j].prompt_data = None

(***************************************************************************)
(* C12: for every full-scaffold block of the adaptive pipeline, generated  *)
(* content is accepted only if its title has at least 5 characters, its    *)
(* description at least 20, it has at least 2 steps and its supporting     *)
(* question has at least 10 characters; content that violates any of the   *)
(* four checks raises a validation failure.                                *)
(***************************************************************************)
C12_FourChecksEnforced ==
    (generated_content # None
        /\ ~BlockGenerator_validate_generated_content(generated_content))
        => failure = "validation"

C14_SaveReturnsIdOrFails ==
    \A k \in DOMAIN saved :
        \/ saved[k].outcome.raised
        \/ saved[k].stored /\ saved[k].outcome.value = saved[k].plan.id

(***************************************************************************)
(* C15: a failure of a context or resource retrieval call (curriculum      *)
(* context, skill context, scaffold resources) never propagates: the       *)
(* retrieval answers with an empty result, and the lesson goes on to       *)
(* planning, or the block to its generation step.                          *)
(***************************************************************************)
C15_RetrievalFailureAbsorbed ==
    /\ failure # "retrieval"
    /\ <<"retrieve_context", 0>> \in retriever.errors
           => /\ pc # "selected"
              /\ context # None /\ context.curriculum_context = ""
    /\ \A e \in retriever.errors :
           e[1] \in {"retrieve_scaffold_resources", "retrieve_by_skill"}
               => \/ \E k \in DOMAIN llm_calls : llm_calls[k] = e[2]
                  \/ failure = "prompt"

\* All three retrievals of a lesson failed, and the generator was still
\* called for the first block and answered.
C15_Witness ==
    /\ retriever.errors = {<<"retrieve_context", 0>>,
                           <<"retrieve_scaffold_resources", 0>>,
                           <<"retrieve_by_skill", 0>>}
    /\ llm_calls = <<0>>
    /\ generated_content # None

C16_PlanWitness ==
    /\ probe.fn = "plan" /\ Len(probe_out.runs) = 2
    /\ probe_out.runs[1][1].use_scaffold
    /\ probe.draws[2].draw40 /\ ~probe_out.runs[1][2].use_scaffold
    /\ probe.available_time_minutes = NoTime

(***************************************************************************)
(* C17: for every position at which a preferred activity type is given     *)
(* (also when the list is shorter than step_count), the skill selected at  *)
(* that position has that activity type, provided the catalog the          *)
(* selection draws from contains a skill of that type.                     *)
(***************************************************************************)
C17_PreferredTypeHonoured ==
    SelectReturned
        => \A i \in DOMAIN probe.preferred_blocks \cap DOMAIN probe_out.skills :
               (\E s \in PermittedSkills : s.block_type = probe.preferred_blocks[i])
                   => probe_out.skills[i].block_type = probe.preferred_blocks[i]

\* The positions (1-based) whose block generation has been attempted.
GenerationAttempted(i) ==
    \/ i <= Len(lesson_blocks)
    \/ /\ i = Len(lesson_blocks) + 1
       /\ failure \in {"retrieval", "prompt", "generation", "validation", "block"}

(***************************************************************************)
(* C18: every skill from which a block is generated carries the category   *)
(* and the activity type recorded in the catalog for its name: a skill     *)
(* with mismatched values is replaced before use by one with the           *)
(* catalog's values, a skill that matches or is absent passes unchanged.   *)
(***************************************************************************)
C18_BlocksUseCatalogMetadata ==
    \A i \in DOMAIN skills :
        GenerationAttempted(i)
            => skills[i] = _verify_skill_metadata(catalog.enhanced, skills[i])

(***************************************************************************)
(* C19 (as claimed): when available_time_minutes is set and                *)
(* time_flexibility is strict, the decision at every position is           *)
(* lightweight, whatever the skill, the position, the difficulty and the   *)
(* amount of time.                                                         *)
(***************************************************************************)
C19_StrictIsAlwaysLightweight ==
    StrictApplies(request.time_flexibility, request.available_time_minutes)
        => \A i \in DOMAIN scaffold_decisions : ~scaffold_decisions[i].use_scaffold

(***************************************************************************)
(* C19 (amended): when available_time_minutes is set and time_flexibility  *)
(* is strict, a decision is a full scaffold only if the time-pressure      *)
(* rules of the assessor do not apply at its position and its estimated    *)
(* time does not exceed the time left by the earlier decisions divided by  *)
(* the number of positions still to decide.                                *)
(***************************************************************************)
C19_StrictFullScaffoldFitsItsShare ==
    (request.time_flexibility = "strict" /\ request.available_time_minutes # NoTime)
        => \A i \in DOMAIN scaffold_decisions :
               scaffold_decisions[i].use_scaffold
                   => /\ ~TimePressure(skills[i], request.available_time_minutes,
                                       i - 1, Len(skills))
                      /\ scaffold_decisions[i].estimated_time * (Len(skills) - (i - 1))
                             <= request.available_time_minutes
                                - SumEstimatedTime(SubSeq(scaffold_decisions, 1, i - 1))

\* A complete strict plan of three construction activities in 45 minutes:
\* the first is switched to a prompt, the last stays a full scaffold that
\* takes exactly the time that is left.
C19_Witness ==
    /\ request.time_flexibility = "strict"
    /\ request.available_time_minutes = 45
    /\ Len(skills) = 3 /\ Len(scaffold_decisions) = 3
    /\ \A i \in 1..3 : skills[i].block_type = "BuildIt"
    /\ ~scaffold_decisions[1].use_scaffold
    /\ scaffold_decisions[3].use_scaffold
    /\ scaffold_decisions[3].estimated_time
           = 45 - SumEstimatedTime(SubSeq(scaffold_decisions, 1, 2))

(***************************************************************************)
(* C20: a variety-driven downgrade to a lightweight prompt (the 40% rule   *)
(* for prompt-friendly skills or the 30% run-length rule) is never applied *)
(* at a position before which the lesson has no full-scaffold decision:    *)
(* whatever the draws, the assessment of the next position is a variety    *)
(* downgrade only after a final full-scaffold decision, and so is every    *)
(* lightweight decision made without time pressure and strict-time rule.   *)
(***************************************************************************)
C20_VarietyOnlyAfterFullScaffold ==
    /\ (pc = "planning" /\ Len(scaffold_decisions) < Len(skills))
           => \A draw40 \in BOOLEAN, draw30 \in BOOLEAN :
                  LET i == Len(scaffold_decisions)
                  IN  (/\ ~should_use_full_scaffold(skills[i + 1], context.subject,
                               request.available_time_minutes, i, Len(skills),
                               previous_scaffolds_count, draw40, draw30)
                       /\ ~TimePressure(skills[i + 1], request.available_time_minutes,
                                        i, Len(skills)))
                          => \E j \in DOMAIN scaffold_decisions :
                                 scaffold_decisions[j].use_scaffold
    /\ \A i \in DOMAIN scaffold_decisions :
           (/\ ~scaffold_decisions[i].use_scaffold
            /\ ~TimePressure(skills[i], request.available_time_minutes, i - 1,
                             Len(skills))
            /\ ~StrictApplies(request.time_flexibility, request.available_time_minutes))
               => \E j \in 1..(i - 1) : scaffold_decisions[j].use_scaffold

\* The run-length rule at work: after two full scaffolds a Blue skill that
\* is neither prompt-friendly nor in the mandatory set gets a prompt, in a
\* lesson without a time budget.
C20_Witness ==
    /\ request.available_time_minutes = NoTime
    /\ Len(scaffold_decisions) = 3
    /\ scaffold_decisions[1].use_scaffold /\ scaffold_decisions[2].use_scaffold
    /\ ~scaffold_decisions[3].use_scaffold
    /\ skills[3].color = "Blue"
    /\ skills[3].name \notin simple_prompt_candidates["Blue"]

\* The run-length rule of lines 103-106 decides the next position: with the
\* other draw fixed, the 30% draw alone turns the assessment from full
\* scaffold to prompt.
RunLengthRuleFires(draw40) ==
    LET i == Len(scaffold_decisions)
    IN  /\ ~should_use_full_scaffold(skills[i + 1], context.subject,
                request.available_time_minutes, i, Len(skills),
                previous_scaffolds_count, draw40, TRUE)
        /\ should_use_full_scaffold(skills[i + 1], context.subject,
               request.available_time_minutes, i, Len(skills),
               previous_scaffolds_count, draw40, FALSE)

(***************************************************************************)
(* C21: the run-length variety downgrade is applied at position i only     *)
(* when the decisions at positions i-1 and i-2 were both full scaffolds;   *)
(* it never fires when the most recent decision was lightweight.           *)
(***************************************************************************)
C21_RunLengthNeedsTwoFullInARow ==
    (pc = "planning" /\ Len(scaffold_decisions) < Len(skills))
        => \A draw40 \in BOOLEAN :
               RunLengthRuleFires(draw40)
                   => LET n == Len(scaffold_decisions)
                      IN  /\ n >= 2
                          /\ scaffold_decisions[n].use_scaffold
                          /\ scaffold_decisions[n - 1].use_scaffold

\* An assessment of a position of the lesson has been made.
Assessed ==
    /\ probe.fn = "assess"
    /\ probe_out.runs # <<>>
    /\ probe.sequence_position < probe.total_steps

\* Ten minutes are counted for every earlier position; the rest is shared
\* by the positions that remain: the share is at least k minutes.
SharePerRemainingStepAtLeast(k) ==
    probe.available_time_minutes - 10 * probe.sequence_position
        >= k * (probe.total_steps - probe.sequence_position)

(***************************************************************************)
(* C22: a skill of the mandatory-scaffold set gets a full-scaffold         *)
(* decision from the assessor whenever the time veto does not apply (no    *)
(* time budget, or at least 8 minutes per remaining step and, for a        *)
(* construction skill, at least 15), at every position, for every count of *)
(* earlier full scaffolds and every random draw.                           *)
(***************************************************************************)
C22_MandatorySkillGetsFullScaffold ==
    (/\ Assessed
     /\ probe.skill.name \in scaffold_required[probe.skill.color]
     /\ \/ probe.available_time_minutes = NoTime
        \/ /\ SharePerRemainingStepAtLeast(8)
           /\ probe.skill.block_type = "BuildIt" => SharePerRemainingStepAtLeast(15))
        => \A k \in DOMAIN probe_out.runs : probe_out.runs[k]

\* Categorise, a Blue mandatory skill, assessed at the last of three
\* positions with a time budget after two full scaffolds, the 30% draw
\* saying "prompt".
C22_Witness ==
    /\ Assessed
    /\ probe.skill.name = "Categorise"
    /\ probe.available_time_minutes = 45
    /\ probe.sequence_position = 2 /\ probe.total_steps = 3
    /\ probe.previous_scaffolds_count = 2
    /\ probe.draw30 /\ probe.draw40
    /\ probe_out.runs[1]

(***************************************************************************)
(* C23: with a time budget, a construction (BuildIt) skill whose remaining *)
(* time per remaining step is below 15 minutes is always decided           *)
(* lightweight, even if it is in the mandatory-scaffold set.               *)
(***************************************************************************)
C23_TimeVetoBeatsMandatorySet ==
    (/\ Assessed
     /\ probe.available_time_minutes # NoTime
     /\ probe.skill.block_type = "BuildIt"
     /\ ~SharePerRemainingStepAtLeast(15))
        => \A k \in DOMAIN probe_out.runs : ~probe_out.runs[k]

\* Hypothesise, a mandatory BuildIt skill, with 11.5 minutes per step:
\* above the 8-minute threshold, below the 15-minute one.
C23_Witness ==
    /\ Assessed
    /\ probe.skill.name = "Hypothesise"
    /\ probe.available_time_minutes = 23
    /\ probe.sequence_position = 0 /\ probe.total_steps = 2
    /\ ~probe_out.runs[1]

(***************************************************************************)
(* C24: the sequencer replaces the assessor's decision at a position only  *)
(* when time_flexibility is strict, a time budget is set, the assessor     *)
(* chose full scaffold and its estimate exceeds the available time minus   *)
(* the estimates of the decided positions, divided by the number of        *)
(* positions not yet decided; then the decision is lightweight.  In every  *)
(* other case, and always under moderate or flexible time, the decision,   *)
(* the estimate and the prompt data are the assessor's: every step that    *)
(* adds a decision agrees with some outcome of the random draws.           *)
(***************************************************************************)
C24_SequencerReplacesOnlyOverShare ==
    [][ Len(scaffold_decisions') = Len(scaffold_decisions) + 1
        => LET i == Len(scaffold_decisions)
               skill == skills[i + 1]
               decision == scaffold_decisions'[i + 1]
               decided == SumEstimatedTime(scaffold_decisions)
           IN  /\ SubSeq(scaffold_decisions', 1, i) = scaffold_decisions
               /\ \E draw40 \in BOOLEAN, draw30 \in BOOLEAN, template \in PromptTemplates :
                    LET use_scaffold ==
                            should_use_full_scaffold(skill, context.subject,
                                request.available_time_minutes, i, Len(skills),
                                previous_scaffolds_count, draw40, draw30)
                        estimated_time ==
                            estimate_activity_time(use_scaffold, skill.block_type,
                                                   context.difficulty)
                        prompt_data ==
                            IF use_scaffold THEN None
                            ELSE generate_simple_prompt(skill, template)
                        replaced ==
                            /\ request.time_flexibility = "strict"
                            /\ request.available_time_minutes # NoTime
                            /\ use_scaffold
                            /\ estimated_time * (Len(skills) - i)
                                   > request.available_time_minutes - decided
                    IN  IF replaced
                        THEN /\ ~decision.use_scaffold
                             /\ decision.estimated_time = PromptMinutes
                             /\ decision.prompt_data = generate_simple_prompt(skill, template)
                        ELSE /\ decision.use_scaffold = use_scaffold
                             /\ decision.estimated_time = estimated_time
                             /\ decision.prompt_data = prompt_data ]_vars

\* Under flexible time a full-scaffold decision that exceeds its share of
\* the remaining budget is in the plan as the assessor made it.
C24_Witness ==
    /\ request.time_flexibility = "flexible"
    /\ request.available_time_minutes # NoTime
    /\ \E i \in DOMAIN scaffold_decisions :
           /\ scaffold_decisions[i].use_scaffold
           /\ scaffold_decisions[i].prompt_data = None
           /\ scaffold_decisions[i].estimated_time * (Len(skills) - (i - 1))
                  > request.available_time_minutes
                    - SumEstimatedTime(SubSeq(scaffold_decisions, 1, i - 1))

(***************************************************************************)
(* C27: the count of earlier full scaffolds handed to the assessor at      *)
(* position i is the number of final full-scaffold decisions at the        *)
(* positions 0..i-1, counted after the strict-time override: a decision    *)
(* switched to lightweight is not counted.                                 *)
(***************************************************************************)
C27_CountIsFinalFullScaffolds ==
    previous_scaffolds_count
        = Cardinality({i \in DOMAIN scaffold_decisions : scaffold_decisions[i].use_scaffold})

\* Planning is at its third position: the first decision, for a mandatory
\* skill without time pressure, was switched by the strict-time rule, the
\* second is a full scaffold, and the count is 1.
C27_Witness ==
    /\ pc = "planning"
    /\ request.time_flexibility = "strict"
    /\ Len(scaffold_decisions) = 2 /\ Len(skills) = 3
    /\ RequiresScaffold(skills[1])
    /\ ~TimePressure(skills[1], request.available_time_minutes, 0, Len(skills))
    /\ ~scaffold_decisions[1].use_scaffold
    /\ scaffold_decisions[2].use_scaffold
    /\ previous_scaffolds_count = 1

\* _plan_scaffolding_strategy has returned its plan.
Planned == pc \in {"generating", "assembled", "responded"} \/ GenerationStarted

(***************************************************************************)
(* C29: in a lesson planned without a time budget the decision at          *)
(* position 0 is a full scaffold, for every skill, context and outcome of  *)
(* the random draws, so every such plan contains at least one full         *)
(* scaffold.                                                               *)
(***************************************************************************)
C29_NoBudgetPlanHasFullScaffold ==
    request.available_time_minutes = NoTime
        => /\ scaffold_decisions # <<>> => scaffold_decisions[1].use_scaffold
           /\ Planned => \E i \in DOMAIN scaffold_decisions :
                              scaffold_decisions[i].use_scaffold

\* The first half of C29 alone: a decision at position 0 made without a
\* time budget is a full scaffold.
C29_FirstDecisionIsFullScaffold ==
    (request.available_time_minutes = NoTime /\ scaffold_decisions # <<>>)
        => scaffold_decisions[1].use_scaffold

\* The generation loop has got past content generation at position i
\* (0-based): its block was appended, or the lesson failed there after
\* the point where the generator is called.
PastContentGeneration(i) ==
    \/ i < Len(lesson_blocks)
    \/ i = Len(lesson_blocks) /\ failure \in {"generation", "validation", "block"}

(***************************************************************************)
(* C25: during block generation the external content generator is invoked  *)
(* once for each full-scaffold decision, in position order, and never for  *)
(* a lightweight decision, whose block is built from the prompt data of    *)
(* the plan alone.                                                         *)
(***************************************************************************)
C25_GeneratorCalledForFullScaffoldsOnly ==
    /\ \A k \in DOMAIN llm_calls :
           /\ llm_calls[k] + 1 \in DOMAIN scaffold_decisions
           /\ scaffold_decisions[llm_calls[k] + 1].use_scaffold
    /\ \A k, l \in DOMAIN llm_calls : k < l => llm_calls[k] < llm_calls[l]
    /\ \A i \in 0..(Len(scaffold_decisions) - 1) :
           PastContentGeneration(i)
               => (scaffold_decisions[i + 1].use_scaffold
                      <=> \E k \in DOMAIN llm_calls : llm_calls[k] = i)

\* The generation loop has handled a lightweight decision of a lesson of
\* several positions, with its prompt data, without a generator call.
C25_Witness ==
    /\ Len(skills) >= 2
    /\ PastContentGeneration(0)
    /\ ~scaffold_decisions[1].use_scaffold
    /\ scaffold_decisions[1].prompt_data # None
    /\ llm_calls = <<>>

\* The generation loop has handled a full-scaffold decision with one call
\* of the generator.
C25_FullScaffoldWitness ==
    /\ PastContentGeneration(0)
    /\ scaffold_decisions[1].use_scaffold
    /\ llm_calls = <<0>>

(***************************************************************************)
(* C26: every content-generation call terminates: it makes at most 3       *)
(* attempts, and when all attempts fail the failure is propagated as a     *)
(* generation error; no call is retried indefinitely.                      *)
(***************************************************************************)
C26_GenerationCallTerminates ==
    /\ [](probe.fn = "generate"
            => /\ Len(probe_out.attempts) <= 3
               /\ probe_out.status = "raised"
                      => /\ probe_out.result = Raised("LLMGenerationError")
                         /\ \A k \in DOMAIN probe_out.attempts :
                                probe_out.attempts[k] # "ok"
               /\ probe_out.status = "returned"
                      => probe_out.attempts[Len(probe_out.attempts)] = "ok")
    /\ <>(probe_out.status \in {"returned", "raised"})

\* Three attempts have failed, two sleeps of 4 seconds between them, and
\* the error has been raised to the caller.
C26_Witness ==
    /\ probe.fn = "generate"
    /\ probe_out.status = "raised"
    /\ Len(probe_out.attempts) = 3
    /\ probe_out.waited = 8

(***************************************************************************)
(* C28: for every step_count >= 1, difficulty, variety setting and outcome *)
(* of the random draws, _generate_varied_scaffold_sequence returns exactly *)
(* step_count activity types, and the sequence never contains three        *)
(* consecutive identical types.                                            *)
(***************************************************************************)
C28_VariedSequenceLengthAndRuns ==
    (probe.fn = "sequence" /\ probe_out # None)
        => LET sequence == probe_out.sequence
           IN  /\ Len(sequence) = probe.step_count
               /\ \A i \in DOMAIN sequence : sequence[i] \in RequestBlockType
               /\ \A i \in 1..(Len(sequence) - 2) :
                      ~(sequence[i] = sequence[i + 1] /\ sequence[i + 1] = sequence[i + 2])

\* The time-aware service, with variety preferred, has drawn the same type
\* twice in a row after the base types and then had to change.
C28_Witness ==
    /\ probe.fn = "sequence" /\ probe_out # None
    /\ probe.service = "time_aware" /\ probe.prefer_variety
    /\ probe.step_count = 5
    /\ probe_out.sequence[3] = probe_out.sequence[4]
    /\ probe_out.sequence[5] # probe_out.sequence[4]

(***************************************************************************)
(* C30: concurrent lesson-generation requests do not interfere through     *)
(* identifiers: any two requests, however their executions interleave, are *)
(* given distinct lesson ids, so a lesson saved by one request is never    *)
(* stored or returned under the id of another.                             *)
(***************************************************************************)
C30_DistinctLessonIds ==
    /\ \A g, h \in DOMAIN handlers :
           (g # h /\ handlers[g].lesson_id # NoLessonId
                   /\ handlers[h].lesson_id # NoLessonId)
               => handlers[g].lesson_id # handlers[h].lesson_id
    /\ \A h \in DOMAIN handlers : \A r \in lessons :
           (handlers[h].response # None /\ handlers[h].response.lesson_id = r.id)
               => r.handler = h

=============================================================================
